---- MODULE Spec2Model ----
(***************************************************************************)
(* Model of tools/generate_references.py: main() walks the test-case       *)
(* collection; render_testcase() allocates a Cairo surface and context,    *)
(* installs the CTM, replays the path, fills or strokes, and writes the    *)
(* PNG fixture.                                                            *)
(*                                                                         *)
(* A test case is an immutable JSON value.  The model draws each field at  *)
(* the statement that reads it and records it in tc, so tc is the part of  *)
(* the current test case the run has looked at so far.                     *)
(*                                                                         *)
(* Coordinates are exact: the input points are multiples of 9, so that     *)
(* 2/3 * d is an integer wherever the program computes it (floating-point  *)
(* rounding of the same expression is not modelled).  Cairo keeps the      *)
(* path in device space; get_current_point maps it back to user space.     *)
(***************************************************************************)
EXTENDS Integers, Sequences, FiniteSets, TLC

\* ---------------------------------------------------------------- bounds
MaxCases == 2      \* test cases in data["testcases"]
MaxSegs == 3       \* segments in one tc["path"]

\* ---------------------------------------------------------------- inputs
PA == <<9, 0>>
PB == <<18, 9>>
PC == <<0, 18>>
PD == <<27, 27>>

\* tc["path"] entries; "A" is a cmd none of the branches of the if-chain takes
Segs ==
  { [cmd |-> "M", pts |-> <<PA>>],
    [cmd |-> "L", pts |-> <<PB>>],
    [cmd |-> "Q", pts |-> <<PC, PD>>],
    [cmd |-> "C", pts |-> <<PC, PB, PD>>],
    [cmd |-> "Z", pts |-> <<>>],
    [cmd |-> "A", pts |-> <<PA>>] }

KnownCmds == {"M", "L", "Q", "C", "Z"}

Identity == <<1, 0, 0, 1, 0, 0>>

\* tc["ctm"]: key absent, empty list, a 6-tuple, a list of the wrong length
Ctms ==
  { [has |-> FALSE, val |-> <<>>],
    [has |-> TRUE, val |-> <<>>],
    [has |-> TRUE, val |-> <<2, 0, 0, 2, 9, 0>>],
    [has |-> TRUE, val |-> <<1, 0>>] }

Ops == {"fill", "stroke", "clip"}
FillRules == {"absent", "nonzero", "evenodd", "winding"}
LineCaps == {"round", "flat"}
LineJoins == {"bevel", "arrow"}

\* tc.get("dash"): key absent, empty list, a pattern
Dashes ==
  { [has |-> FALSE, val |-> <<>>],
    [has |-> TRUE, val |-> <<>>],
    [has |-> TRUE, val |-> <<4, 2>>] }

\* tc.get("dash_phase", 0): key absent, a phase
DashPhases ==
  { [has |-> FALSE, val |-> 0],
    [has |-> TRUE, val |-> 1] }

\* tc["line_width"]: key absent, a width
LineWidths ==
  { [has |-> FALSE, val |-> 0],
    [has |-> TRUE, val |-> 2] }

\* ----------------------------------------------------------------- state
VARIABLES
  n,        \* len(data["testcases"])
  i,        \* position of main's for loop in the collection (1-based)
  pc,       \* the statement the program is at
  tc,       \* the fields of test case i read so far
  ctx,      \* the cairo.Context of the running render_testcase
  surface,  \* the cairo.ImageSurface of the running render_testcase
  calls,    \* the calls made on ctx since it was created, in order
  out,      \* fixtures written and progress lines printed, in order
  err       \* the exception that ended the run, or "none"

vars == <<n, i, pc, tc, ctx, surface, calls, out, err>>

Unread == [has |-> FALSE, val |-> <<>>]

\* nothing of the test case has been read
NoTc ==
  [ ctm |-> Unread, ctm_read |-> FALSE,
    path |-> <<>>,
    op |-> "unread", fill_rule |-> "unread",
    line_width |-> [has |-> FALSE, val |-> 0],
    line_cap |-> "unread", line_join |-> "unread",
    dash |-> Unread, dash_read |-> FALSE,
    dash_phase |-> [has |-> FALSE, val |-> 0] ]

\* cairo.Context(surface): identity matrix, empty path, default graphics state
NewCtx ==
  [ matrix |-> Identity,
    hasCur |-> FALSE, cur |-> <<0, 0>>, start |-> <<0, 0>>,
    fill_rule |-> "winding", line_cap |-> "butt", line_join |-> "miter",
    dash |-> <<>>, dash_offset |-> 0 ]

\* one call on the context
Call(op, pts, nums, s) == [op |-> op, pts |-> pts, nums |-> nums, s |-> s]

PathOps == {"move_to", "line_to", "curve_to", "close_path"}
TerminalOps == {"fill", "stroke"}

\* ------------------------------------------------------- the Cairo context
\* user space to device space under matrix m = (xx, yx, xy, yy, x0, y0)
UserToDevice(m, p) ==
  << m[1] * p[1] + m[3] * p[2] + m[5],
     m[2] * p[1] + m[4] * p[2] + m[6] >>

Det(m) == m[1] * m[4] - m[2] * m[3]

\* device space back to user space
DeviceToUser(m, q) ==
  << (m[4] * (q[1] - m[5]) - m[3] * (q[2] - m[6])) \div Det(m),
     (m[1] * (q[2] - m[6]) - m[2] * (q[1] - m[5])) \div Det(m) >>

\* ctx.get_current_point(): (0.0, 0.0) when there is no current point
get_current_point(c) ==
  IF c.hasCur THEN DeviceToUser(c.matrix, c.cur) ELSE <<0, 0>>

set_matrix(c, m) == [c EXCEPT !.matrix = m]

move_to(c, p) ==
  [c EXCEPT !.hasCur = TRUE,
            !.cur = UserToDevice(c.matrix, p),
            !.start = UserToDevice(c.matrix, p)]

\* without a current point line_to acts as move_to
line_to(c, p) ==
  IF c.hasCur THEN [c EXCEPT !.cur = UserToDevice(c.matrix, p)]
  ELSE move_to(c, p)

\* without a current point curve_to first moves to its first control point
curve_to(c, p1, p2, p3) ==
  [ (IF c.hasCur THEN c ELSE move_to(c, p1)) EXCEPT
      !.cur = UserToDevice(c.matrix, p3) ]

\* closes the sub-path; the current point becomes the sub-path's start
close_path(c) ==
  IF c.hasCur THEN [c EXCEPT !.cur = c.start] ELSE c

\* ------------------------------------------------------------------- Init
Init ==
  /\ n \in 0..MaxCases
  /\ i = 1
  /\ pc = "loop"
  /\ tc = NoTc
  /\ ctx = NewCtx
  /\ surface = "none"
  /\ calls = <<>>
  /\ out = <<>>
  /\ err = "none"

\* the exception is recorded and the test case goes on to its fixture
Raise_Swallow(e) ==
  /\ pc' = "write"
  /\ err' = e

\* an exception leaves render_testcase and main: the run ends
Raise(e) ==
  /\ pc' = "failed"
  /\ err' = e

\* one surface and one context for the whole run, made for the first test
\* case and used again by the later ones
Alloc_Reuse ==
  /\ pc = "loop"
  /\ i <= n
  /\ pc' = "ctm"
  /\ tc' = NoTc
  /\ surface' = IF i = 1 THEN "blank" ELSE surface
  /\ ctx' = IF i = 1 THEN NewCtx ELSE ctx
  /\ calls' = <<>>
  /\ UNCHANGED <<n, i, out, err>>

\* main: the for loop takes the next test case and calls render_testcase,
\* which creates the surface and the context
Alloc ==
  /\ pc = "loop"
  /\ i <= n
  /\ pc' = "ctm"
  /\ tc' = NoTc
  /\ surface' = "blank"
  /\ ctx' = NewCtx
  /\ calls' = <<>>
  /\ UNCHANGED <<n, i, out, err>>

\* main: the for loop is exhausted
Exit ==
  /\ pc = "loop"
  /\ i > n
  /\ pc' = "done"
  /\ UNCHANGED <<n, i, tc, ctx, surface, calls, out, err>>

\* "ctm" in tc and tc["ctm"]
CtmPresent(m) == m.has /\ m.val # <<>>

\* the matrix is set whether or not the test case has a CTM
ApplyCTM_Always ==
  /\ pc = "ctm"
  /\ \E m \in Ctms :
       /\ tc' = [tc EXCEPT !.ctm = m, !.ctm_read = TRUE]
       /\ IF CtmPresent(m) /\ Len(m.val) # 6
          THEN /\ Raise("ValueError")
               /\ UNCHANGED <<ctx, calls>>
          ELSE LET mat == IF CtmPresent(m) THEN m.val ELSE Identity
               IN /\ ctx' = set_matrix(ctx, mat)
                  /\ calls' = Append(calls, Call("set_matrix", <<>>, mat, ""))
                  /\ pc' = "path"
                  /\ UNCHANGED err
  /\ UNCHANGED <<n, i, surface, out>>

\* render_testcase: the test of the ctm, the unpacking of its six numbers and
\* ctx.set_matrix
ApplyCTM ==
  /\ pc = "ctm"
  /\ \E m \in Ctms :
       /\ tc' = [tc EXCEPT !.ctm = m, !.ctm_read = TRUE]
       /\ IF CtmPresent(m)
          THEN IF Len(m.val) = 6
               THEN /\ ctx' = set_matrix(ctx, m.val)
                    /\ calls' = Append(calls, Call("set_matrix", <<>>, m.val, ""))
                    /\ pc' = "path"
                    /\ UNCHANGED err
               ELSE /\ Raise("ValueError")
                    /\ UNCHANGED <<ctx, calls>>
          ELSE /\ pc' = "path"
               /\ UNCHANGED <<ctx, calls, err>>
  /\ UNCHANGED <<n, i, surface, out>>

\* the quadratic control point passed on as it is
Elevate_Raw(p0, p1) == p1

\* x0 + 2/3 * (x1 - x0), on both coordinates
Elevate(p0, p1) ==
  << p0[1] + (2 * (p1[1] - p0[1])) \div 3,
     p0[2] + (2 * (p1[2] - p0[2])) \div 3 >>

\* the three points the Q branch passes to ctx.curve_to
QuadToCubic(p0, p1, p2) == << Elevate(p0, p1), Elevate(p2, p1), p2 >>

\* the loop "for seg in tc['path']" takes a segment with this cmd
TakeSeg(seg) ==
  /\ pc = "path"
  /\ Len(tc.path) < MaxSegs
  /\ seg \in Segs
  /\ tc' = [tc EXCEPT !.path = Append(@, seg)]
  /\ UNCHANGED <<n, i, pc, surface, out, err>>

SegM ==
  \E seg \in Segs :
    /\ seg.cmd = "M"
    /\ TakeSeg(seg)
    /\ ctx' = move_to(ctx, seg.pts[1])
    /\ calls' = Append(calls, Call("move_to", <<seg.pts[1]>>, <<>>, ""))

SegL ==
  \E seg \in Segs :
    /\ seg.cmd = "L"
    /\ TakeSeg(seg)
    /\ ctx' = line_to(ctx, seg.pts[1])
    /\ calls' = Append(calls, Call("line_to", <<seg.pts[1]>>, <<>>, ""))

SegQ ==
  \E seg \in Segs :
    /\ seg.cmd = "Q"
    /\ TakeSeg(seg)
    /\ LET p0 == get_current_point(ctx)
           cub == QuadToCubic(p0, seg.pts[1], seg.pts[2])
       IN /\ ctx' = curve_to(ctx, cub[1], cub[2], cub[3])
          /\ calls' = Append(calls, Call("curve_to", cub, <<>>, ""))

\* the two control points of a C segment passed in the wrong order
SegC_Swapped ==
  \E seg \in Segs :
    /\ seg.cmd = "C"
    /\ TakeSeg(seg)
    /\ ctx' = curve_to(ctx, seg.pts[2], seg.pts[1], seg.pts[3])
    /\ calls' = Append(calls,
                  Call("curve_to", <<seg.pts[2], seg.pts[1], seg.pts[3]>>, <<>>, ""))

SegC ==
  \E seg \in Segs :
    /\ seg.cmd = "C"
    /\ TakeSeg(seg)
    /\ ctx' = curve_to(ctx, seg.pts[1], seg.pts[2], seg.pts[3])
    /\ calls' = Append(calls,
                  Call("curve_to", <<seg.pts[1], seg.pts[2], seg.pts[3]>>, <<>>, ""))

SegZ ==
  \E seg \in Segs :
    /\ seg.cmd = "Z"
    /\ TakeSeg(seg)
    /\ ctx' = close_path(ctx)
    /\ calls' = Append(calls, Call("close_path", <<>>, <<>>, ""))

\* a cmd outside M, L, Q, C, Z matches no branch: the segment is passed over
SegOther ==
  \E seg \in Segs :
    /\ seg.cmd \notin KnownCmds
    /\ TakeSeg(seg)
    /\ UNCHANGED <<ctx, calls>>

\* the path loop is exhausted
PathEnd ==
  /\ pc = "path"
  /\ pc' = "op"
  /\ UNCHANGED <<n, i, tc, ctx, surface, calls, out, err>>

\* a lookup that falls back to the winding rule
rule_map_Default ==
  ("nonzero" :> "winding") @@ ("evenodd" :> "even_odd") @@
  ("winding" :> "winding") @@ ("absent" :> "winding")

rule_map == ("nonzero" :> "winding") @@ ("evenodd" :> "even_odd")

cap_map == ("butt" :> "butt") @@ ("round" :> "round") @@ ("square" :> "square")

join_map == ("miter" :> "miter") @@ ("round" :> "round") @@ ("bevel" :> "bevel")

\* ctx.set_source_rgba(1, 1, 1, 1); ctx.fill()
FillTail ==
  << Call("set_source_rgba", <<>>, <<1, 1, 1, 1>>, ""),
     Call("fill", <<>>, <<>>, "") >>

\* the branch 'if tc["op"] == "fill"'
Fill ==
  /\ pc = "op"
  /\ \E op \in Ops, fr \in FillRules :
       /\ op = "fill"
       /\ tc' = [tc EXCEPT !.op = op, !.fill_rule = fr]
       /\ IF fr \in DOMAIN rule_map
          THEN /\ ctx' = [ctx EXCEPT !.fill_rule = rule_map[fr]]
               /\ calls' = calls \o
                    << Call("set_fill_rule", <<>>, <<>>, rule_map[fr]) >> \o FillTail
               /\ surface' = "filled"
               /\ pc' = "write"
               /\ UNCHANGED err
          ELSE /\ Raise("KeyError")
               /\ UNCHANGED <<ctx, calls, surface>>
  /\ UNCHANGED <<n, i, out>>

\* "dash" in tc, whatever its value
DashOn_KeyOnly(d) == d.has

\* tc.get("dash") is truthy
DashOn(d) == d.has /\ d.val # <<>>

\* tc.get("dash_phase", 0)
DashPhase(ph) == IF ph.has THEN ph.val ELSE 0

\* the path is filled as well as stroked
StrokeTail_FillToo ==
  << Call("set_source_rgba", <<>>, <<1, 1, 1, 1>>, ""),
     Call("fill", <<>>, <<>>, ""),
     Call("stroke", <<>>, <<>>, "") >>

\* ctx.set_source_rgba(1, 1, 1, 1); ctx.stroke()
StrokeTail ==
  << Call("set_source_rgba", <<>>, <<1, 1, 1, 1>>, ""),
     Call("stroke", <<>>, <<>>, "") >>

\* the calls of the else branch up to the first failing lookup, or up to
\* ctx.stroke(): <<calls, context, failed>>
StrokeSteps(c, lw, cap, join, d, ph) ==
  LET s1 == << Call("set_line_width", <<>>, <<lw.val>>, "") >>
      s2 == Append(s1, Call("set_line_cap", <<>>, <<>>, cap_map[cap]))
      c2 == [c EXCEPT !.line_cap = cap_map[cap]]
      s3 == s2 \o << Call("set_line_join", <<>>, <<>>, join_map[join]),
                     Call("set_miter_limit", <<>>, <<4>>, "") >>
      c3 == [c2 EXCEPT !.line_join = join_map[join]]
      phase == DashPhase(ph)
      dashOn == DashOn(d)
      s4 == IF dashOn
            THEN Append(s3, Call("set_dash", <<>>, Append(d.val, phase), ""))
            ELSE s3
      c4 == IF dashOn
            THEN [c3 EXCEPT !.dash = d.val, !.dash_offset = phase]
            ELSE c3
      s5 == s4 \o StrokeTail
  IN IF ~lw.has THEN << <<>>, c, TRUE >>
     ELSE IF cap \notin DOMAIN cap_map THEN << s1, c, TRUE >>
     ELSE IF join \notin DOMAIN join_map THEN << s2, c2, TRUE >>
     ELSE << s5, c4, FALSE >>

\* the fields of the test case the else branch has read when it ends
StrokeRead(t, op, lw, cap, join, d, ph) ==
  LET t1 == [t EXCEPT !.op = op, !.line_width = lw]
      t2 == [t1 EXCEPT !.line_cap = cap]
      t3 == [t2 EXCEPT !.line_join = join]
      t4 == [t3 EXCEPT !.dash = d, !.dash_read = TRUE]
      t5 == [t4 EXCEPT !.dash_phase = ph]
  IN IF ~lw.has THEN t1
     ELSE IF cap \notin DOMAIN cap_map THEN t2
     ELSE IF join \notin DOMAIN join_map THEN t3
     ELSE IF DashOn(d) THEN t5
     ELSE t4

\* the branch "else:  # stroke"
Stroke ==
  /\ pc = "op"
  /\ \E op \in Ops, lw \in LineWidths, cap \in LineCaps, join \in LineJoins,
        d \in Dashes, ph \in DashPhases :
       /\ op # "fill"
       /\ tc' = StrokeRead(tc, op, lw, cap, join, d, ph)
       /\ LET r == StrokeSteps(ctx, lw, cap, join, d, ph)
          IN /\ calls' = calls \o r[1]
             /\ ctx' = r[2]
             /\ IF r[3]
                THEN /\ Raise("KeyError")
                     /\ UNCHANGED surface
                ELSE /\ surface' = "stroked"
                     /\ pc' = "write"
                     /\ UNCHANGED err
  /\ UNCHANGED <<n, i, out>>

\* surface.write_to_png(output_dir / f"{name}.png")
WritePng ==
  /\ pc = "write"
  /\ out' = Append(out, [kind |-> "png", name |-> i])
  /\ pc' = "print"
  /\ UNCHANGED <<n, i, tc, ctx, surface, calls, err>>

\* main: print(f"  generated {tc['name']}.png"), then the next iteration
PrintLine ==
  /\ pc = "print"
  /\ out' = Append(out, [kind |-> "print", name |-> i])
  /\ i' = i + 1
  /\ pc' = "loop"
  /\ UNCHANGED <<n, tc, ctx, surface, calls, err>>

Next ==
  \/ Alloc
  \/ ApplyCTM
  \/ SegM
  \/ SegL
  \/ SegQ
  \/ SegC
  \/ SegZ
  \/ SegOther
  \/ PathEnd
  \/ Fill
  \/ Stroke
  \/ WritePng
  \/ PrintLine
  \/ Exit

Spec == Init /\ [][Next]_vars

\* ------------------------------------------------------------ vocabulary
\* positions in calls of the calls whose name is in ops
Idx(ops) == { j \in DOMAIN calls : calls[j].op \in ops }

\* the fixture of test case name has been written
Written(name) == \E e \in DOMAIN out : out[e].kind = "png" /\ out[e].name = name

\* the progress line of test case name has been printed
Printed(name) == \E e \in DOMAIN out : out[e].kind = "print" /\ out[e].name = name

IsPathCall(c) == c.op \in PathOps

\* the path-construction calls, in order
PathCalls == SelectSeq(calls, IsPathCall)

\* ---------------------------------------------------------------- claims

\* C1: a test case that is processed to completion has had exactly one
\* terminal operation (fill or stroke, never both, never neither); that
\* operation comes after the path loop has ended and after every
\* path-construction call, and the fixture is written only after it.
C1_OneTerminalAfterPath ==
  /\ Cardinality(Idx(TerminalOps)) <= 1
  /\ Idx(TerminalOps) # {} =>
       /\ pc \notin {"ctm", "path", "op"}
       /\ \A p \in Idx(PathOps), t \in Idx(TerminalOps) : p < t
  /\ pc \in {"ctm", "path", "op", "write", "failed"} => ~Written(i)
  /\ pc \in {"write", "print"} => Cardinality(Idx(TerminalOps)) = 1
  /\ pc = "print" => Written(i)
  /\ \A name \in 1..(i - 1) : Written(name)
  /\ pc \in {"loop", "done"} /\ i > 1 => Cardinality(Idx(TerminalOps)) = 1

\* a second test case has been stroked after a three-segment path and its
\* fixture is written
C1_Witness ==
  /\ pc = "print"
  /\ i = 2
  /\ Len(PathCalls) = 3
  /\ Idx({"stroke"}) # {}

\* C2: a Q segment (control p1, end p2) processed at current point p0 issues
\* exactly one call, curve_to(p0 + 2/3*(p1-p0), p2 + 2/3*(p1-p2), p2), and
\* leaves the current point at p2; the raw control point is not passed on.
C2_QuadElevation ==
  [][ ( /\ pc = "path"
        /\ Len(tc'.path) = Len(tc.path) + 1
        /\ tc'.path[Len(tc'.path)].cmd = "Q"
        /\ ctx.hasCur )
      =>
      LET seg == tc'.path[Len(tc'.path)]
          p0 == get_current_point(ctx)
          p1 == seg.pts[1]
          p2 == seg.pts[2]
          c == calls'[Len(calls')]
      IN /\ Len(calls') = Len(calls) + 1
         /\ SubSeq(calls', 1, Len(calls)) = calls
         /\ c.op = "curve_to"
         /\ Len(c.pts) = 3
         /\ \A k \in 1..2 :
              /\ 3 * (c.pts[1][k] - p0[k]) = 2 * (p1[k] - p0[k])
              /\ 3 * (c.pts[2][k] - p2[k]) = 2 * (p1[k] - p2[k])
         /\ c.pts[3] = p2
         /\ (p1 # p0 => c.pts[1] # p1)
         /\ (p1 # p2 => c.pts[2] # p1)
         /\ ctx'.hasCur
         /\ get_current_point(ctx') = p2
    ]_vars

\* under a scaling CTM, M then Q: the curve_to carries the elevated points
C2_Witness ==
  /\ Len(tc.path) = 2
  /\ tc.path[1].cmd = "M"
  /\ tc.path[2].cmd = "Q"
  /\ CtmPresent(tc.ctm)
  /\ Len(calls) = 3
  /\ calls[3].op = "curve_to"
  /\ calls[3].pts = << <<3, 12>>, <<9, 21>>, PD >>

\* the current test case's path has a Q or C segment with no M, L, Q or C
\* before it
CurveWithoutCurrentPoint ==
  \E j \in DOMAIN tc.path :
    /\ tc.path[j].cmd \in {"Q", "C"}
    /\ \A k \in 1..(j - 1) : tc.path[k].cmd \notin {"M", "L", "Q", "C"}

\* C3: a Q or C segment processed before any current point is established
\* fails the test case with a StateError: no curve_to call is issued, no
\* terminal operation executes and no fixture is written.
C3_CurveNeedsCurrentPoint ==
  CurveWithoutCurrentPoint =>
    /\ pc = "failed"
    /\ err = "StateError"
    /\ Idx({"curve_to"}) = {}
    /\ Idx(TerminalOps) = {}
    /\ ~Written(i)

\* C4: op alone selects the terminal operation: "fill" fills and does not
\* stroke, "stroke" strokes and does not fill, and any other value fails
\* with neither executed and no fixture written.
C4_OpSoleSelector ==
  /\ tc.op = "fill" => Idx({"stroke"}) = {}
  /\ tc.op = "stroke" => Idx({"fill"}) = {}
  /\ tc.op \notin {"unread", "fill", "stroke"} =>
       /\ pc = "failed"
       /\ err # "none"
       /\ Idx(TerminalOps) = {}
       /\ ~Written(i)

\* C5: with op = "fill", fill_rule "nonzero" sets the winding rule and
\* "evenodd" the even-odd rule; any other fill_rule fails (the lookup in
\* rule_map raises) before set_fill_rule is called, so no fill executes and
\* no fixture is written.
C5_FillRule ==
  tc.op = "fill" =>
    /\ tc.fill_rule = "nonzero" =>
         /\ ctx.fill_rule = "winding"
         /\ \E j \in Idx({"set_fill_rule"}) :
              /\ calls[j].s = "winding"
              /\ \A t \in Idx({"fill"}) : j < t
         /\ Idx({"fill"}) # {}
    /\ tc.fill_rule = "evenodd" =>
         /\ ctx.fill_rule = "even_odd"
         /\ \E j \in Idx({"set_fill_rule"}) :
              /\ calls[j].s = "even_odd"
              /\ \A t \in Idx({"fill"}) : j < t
         /\ Idx({"fill"}) # {}
    /\ tc.fill_rule \notin {"nonzero", "evenodd"} =>
         /\ pc = "failed"
         /\ err = "KeyError"
         /\ Idx({"set_fill_rule"}) = {}
         /\ Idx(TerminalOps) = {}
         /\ ~Written(i)
         /\ ~Printed(i)

\* the second test case asked for the fill rule "winding" and the run failed
C5_Witness ==
  /\ tc.op = "fill"
  /\ tc.fill_rule = "winding"
  /\ pc = "failed"
  /\ i = 2
  /\ Len(PathCalls) > 0

\* C6: out is the fixture and the progress line of test case 1, then of
\* test case 2, and so on, with nothing out of order; once a test case has
\* failed the run has ended with the fixtures and lines of the test cases
\* before it and nothing for it or for any later one.
C6_AbortOnFailure ==
  /\ \A e \in DOMAIN out :
       /\ out[e].name = (e + 1) \div 2
       /\ out[e].kind = IF e % 2 = 1 THEN "png" ELSE "print"
  /\ Len(out) = 2 * (i - 1) + (IF pc = "print" THEN 1 ELSE 0)
  /\ err # "none" =>
       /\ pc = "failed"
       /\ \A name \in 1..(i - 1) : Written(name) /\ Printed(name)
       /\ \A name \in i..n : ~Written(name) /\ ~Printed(name)
  /\ pc = "done" => i = n + 1 /\ err = "none"

\* the second of two test cases failed after the first was completed
C6_Witness ==
  /\ pc = "failed"
  /\ i = 2
  /\ n = 2
  /\ Len(out) = 2

\* C7: with op = "stroke", set_dash is called if and only if dash is
\* present and non-empty; it is called before stroke, with the pattern and
\* with phase dash_phase, or 0 when dash_phase is absent; otherwise the
\* context keeps its empty dash (a solid stroke).
C7_DashInstalled ==
  tc.op = "stroke" =>
    /\ Idx({"set_dash"}) # {} => tc.dash.has /\ Len(tc.dash.val) > 0
    /\ Idx({"stroke"}) # {} =>
         /\ tc.dash_read
         /\ tc.dash.has /\ Len(tc.dash.val) > 0 =>
              /\ Cardinality(Idx({"set_dash"})) = 1
              /\ \A j \in Idx({"set_dash"}), t \in Idx({"stroke"}) : j < t
              /\ \A j \in Idx({"set_dash"}) :
                   /\ SubSeq(calls[j].nums, 1, Len(tc.dash.val)) = tc.dash.val
                   /\ Len(calls[j].nums) = Len(tc.dash.val) + 1
                   /\ calls[j].nums[Len(calls[j].nums)] =
                        (IF tc.dash_phase.has THEN tc.dash_phase.val ELSE 0)
              /\ ctx.dash = tc.dash.val
              /\ ctx.dash_offset = (IF tc.dash_phase.has THEN tc.dash_phase.val ELSE 0)
         /\ ~(tc.dash.has /\ Len(tc.dash.val) > 0) =>
              /\ Idx({"set_dash"}) = {}
              /\ ctx.dash = <<>>

\* a stroke with dash [4, 2] and no dash_phase
C7_Witness ==
  /\ tc.op = "stroke"
  /\ pc = "write"
  /\ tc.dash.val = <<4, 2>>
  /\ ~tc.dash_phase.has
  /\ \E j \in Idx({"set_dash"}) : calls[j].nums = <<4, 2, 0>>

\* C8: when the test case has a CTM, set_matrix is called exactly once, as
\* the first call on the context and so before every path-construction
\* call, and the matrix stays the CTM up to the terminal operation; when it
\* has none, set_matrix is never called and the matrix stays the identity.
C8_CtmBeforePath ==
  /\ ~tc.ctm_read => Idx({"set_matrix"}) = {} /\ ctx.matrix = <<1, 0, 0, 1, 0, 0>>
  /\ tc.ctm_read /\ tc.ctm.has /\ Len(tc.ctm.val) = 6 =>
       /\ Idx({"set_matrix"}) = {1}
       /\ calls[1].nums = tc.ctm.val
       /\ ctx.matrix = tc.ctm.val
       /\ \A p \in Idx(PathOps \cup TerminalOps) : 1 < p
  /\ tc.ctm_read /\ ~(tc.ctm.has /\ Len(tc.ctm.val) > 0) =>
       /\ Idx({"set_matrix"}) = {}
       /\ ctx.matrix = <<1, 0, 0, 1, 0, 0>>

\* a test case with a CTM has built a path and run its terminal operation
C8_Witness ==
  /\ pc = "write"
  /\ tc.ctm.has
  /\ Len(tc.ctm.val) = 6
  /\ Len(PathCalls) = 2

\* C9: when render_testcase has created its surface and context, whatever
\* came before, the context has no current point, the identity matrix, no
\* dash, no call made on it, and the surface is blank; when the path loop
\* starts, the matrix is this test case's CTM or the identity.
C9_FreshContext ==
  /\ pc = "ctm" =>
       /\ ~ctx.hasCur
       /\ ctx.matrix = <<1, 0, 0, 1, 0, 0>>
       /\ ctx.dash = <<>>
       /\ ctx.dash_offset = 0
       /\ surface = "blank"
       /\ calls = <<>>
       /\ tc.path = <<>>
  /\ pc = "path" /\ tc.path = <<>> =>
       /\ ~ctx.hasCur
       /\ get_current_point(ctx) = <<0, 0>>
       /\ ctx.dash = <<>>
       /\ surface = "blank"
       /\ Idx(PathOps \cup TerminalOps \cup {"set_dash"}) = {}
       /\ ctx.matrix = (IF tc.ctm.has /\ Len(tc.ctm.val) > 0
                        THEN tc.ctm.val ELSE <<1, 0, 0, 1, 0, 0>>)

\* the second test case starts its path without a CTM of its own
C9_Witness ==
  /\ pc = "path"
  /\ tc.path = <<>>
  /\ i = 2
  /\ ~tc.ctm.has
  /\ Printed(1)

\* the call a segment with a known cmd has to produce
SegCallOk(seg, c) ==
  /\ seg.cmd = "M" => c.op = "move_to" /\ c.pts = seg.pts
  /\ seg.cmd = "L" => c.op = "line_to" /\ c.pts = seg.pts
  /\ seg.cmd = "C" => c.op = "curve_to" /\ c.pts = seg.pts
  /\ seg.cmd = "Q" => c.op = "curve_to" /\ Len(c.pts) = 3 /\ c.pts[3] = seg.pts[2]
  /\ seg.cmd = "Z" => c.op = "close_path" /\ c.pts = <<>>

\* C10: for a path whose segments all have a cmd in M, L, Q, C, Z there is
\* exactly one path-construction call per segment, in segment order: M, L,
\* Z and C with the segment's points verbatim, Q as one curve_to.
C10_OneCallPerSegment ==
  (\A j \in DOMAIN tc.path : tc.path[j].cmd \in KnownCmds) =>
    /\ Len(PathCalls) = Len(tc.path)
    /\ \A j \in DOMAIN tc.path : SegCallOk(tc.path[j], PathCalls[j])

\* a path of three C segments has been replayed
C10_Witness ==
  /\ pc = "op"
  /\ Len(tc.path) = 3
  /\ \A j \in DOMAIN tc.path : tc.path[j].cmd = "C"
  /\ Len(PathCalls) = 3
====
